---- MODULE Spec2Model ----
(***************************************************************************)
(* The licence authority (license-server), the licence fetcher             *)
(* (get-license) and the licensed consumer (trial-binary) of               *)
(* RGGH/license-demo, as one state machine.                                *)
(*                                                                         *)
(* Text is a sequence of one-character strings, so that trimming, hex      *)
(* decoding, decimal formatting/parsing and URL query decoding are         *)
(* computed character by character, the way the code computes them.        *)
(***************************************************************************)
EXTENDS Integers, Sequences, FiniteSets

VARIABLES
    now,              \* the wall clock both programs read (seconds since epoch)
    signing_key,      \* AppState.signing_key of the running authority
    revoked_users,    \* AppState.revoked_users : HashMap<String, bool>
    trial_token,      \* file "trial.token"
    trial_signature,  \* file "trial.signature"
    last_check_file,  \* file ".last_license_check"
    pc,               \* position of the consumer's main
    token,            \* the TrialToken returned by verify_trial_token
    net,              \* the revocation request / response in flight
    outcome,          \* which branch ended (or admitted) the current run
    exit_code,        \* process exit status of the run, -1 while running
    detail,           \* the number the run's message reports (days or hours)
    stages,           \* history: stages the current run has executed, in order
    served,           \* history: what the authority knew when it answered this run
    revoke_done,      \* history: subjects for which revoke has completed
    told_revoked,     \* history: subjects this consumer was answered 'revoked' for
    expired_seen,     \* history: an offline check denied GracePeriodExpired and
                      \*          no online check has admitted since
    handler,          \* per worker thread of the authority: the request it is handling
    lock_holder,      \* the worker holding the Mutex of revoked_users, 0 when free
    map_torn,         \* a HashMap::insert on revoked_users is under way
    writer,           \* a second consumer process inside fs::write(LAST_CHECK_FILE)
    recorded,         \* history: the last-check file as the last complete fs::write left it
    seen              \* history: what the latest reader got, and what was recorded then

vars == <<now, signing_key, revoked_users, trial_token, trial_signature,
          last_check_file, pc, token, net, outcome, exit_code, detail, stages,
          served, revoke_done, told_revoked, expired_seen,
         handler, lock_holder, map_torn, writer, recorded, seen>>

\* The variables of the finer-grained specifications: the authority's worker
\* threads, and a second consumer process writing the last-check file. The
\* actions of Spec leave them alone.
authorityVars == <<handler, lock_holder, map_torn>>

raceVars == <<writer, recorded, seen>>

fineVars == <<authorityVars, raceVars>>

----------------------------------------------------------------------------
(* Program constants *)

GRACE_PERIOD_HOURS == 24

SECONDS_PER_HOUR == 3600

SECONDS_PER_DAY == 24 * 60 * 60

TRIAL_SECONDS == 14 * 24 * 60 * 60

SIGNATURE_LENGTH == 64

\* The embedded verification key, identified by its first byte 0xb0.
PUBLIC_KEY_BYTES == 176

\* Keys the authority's OsRng may generate at start-up: the one the consumer
\* embeds, or another one.
GeneratedKeys == {PUBLIC_KEY_BYTES, 31}

----------------------------------------------------------------------------
(* Bounds of the model *)

\* The clock never passes MaxTime.
MaxTime == 1296000

\* The instants the clock visits: the ends of the grace window (24 h, 24 h
\* and a second, 25 h) and of a trial issued at 0 (14 d, a second less than
\* 15 d, 15 d).
TimePoints ==
    {t \in {0,
            GRACE_PERIOD_HOURS * SECONDS_PER_HOUR,
            GRACE_PERIOD_HOURS * SECONDS_PER_HOUR + 1,
            (GRACE_PERIOD_HOURS + 1) * SECONDS_PER_HOUR,
            TRIAL_SECONDS,
            TRIAL_SECONDS + SECONDS_PER_DAY - 1,
            TRIAL_SECONDS + SECONDS_PER_DAY} : t <= MaxTime}

\* Subject identifiers: a plain one, and one with a character that is special
\* in a URL query.
UserIds == {<<"a">>, <<"b", "+">>}

----------------------------------------------------------------------------
(* Text helpers *)

IsWhitespace(c) == c \in {" ", "\n", "\t", "\r"}

RECURSIVE TrimStart(_)
TrimStart(s) ==
    IF s # <<>> /\ IsWhitespace(Head(s)) THEN TrimStart(Tail(s)) ELSE s

RECURSIVE TrimEnd(_)
TrimEnd(s) ==
    IF s # <<>> /\ IsWhitespace(s[Len(s)])
    THEN TrimEnd(SubSeq(s, 1, Len(s) - 1))
    ELSE s

\* str::trim
Trim(s) == TrimEnd(TrimStart(s))

Digits == <<"0", "1", "2", "3", "4", "5", "6", "7", "8", "9">>

DigitVal(c) ==
    IF \E i \in 1..10 : Digits[i] = c
    THEN (CHOOSE i \in 1..10 : Digits[i] = c) - 1
    ELSE -1

\* u64::to_string
RECURSIVE U64ToString(_)
U64ToString(n) ==
    IF n < 10 THEN <<Digits[n + 1]>>
    ELSE Append(U64ToString(n \div 10), Digits[(n % 10) + 1])

RECURSIVE ParseDigits(_, _)
ParseDigits(s, acc) ==
    IF s = <<>> THEN acc
    ELSE IF DigitVal(Head(s)) < 0 THEN -1
    ELSE ParseDigits(Tail(s), acc * 10 + DigitVal(Head(s)))

\* str::parse::<u64> : -1 stands for Err (empty text, or a non-digit; one
\* leading "+" is accepted).
ParseU64(s) ==
    LET body == IF s # <<>> /\ Head(s) = "+" THEN Tail(s) ELSE s
    IN  IF body = <<>> THEN -1 ELSE ParseDigits(body, 0)

\* A u64 too large for a TLC integer is kept as its U64_DIGITS decimal
\* digits, most significant first.
U64_DIGITS == 20

\* u64::MAX = 2^64 - 1 = 18446744073709551615
U64_MAX == <<1, 8, 4, 4, 6, 7, 4, 4, 0, 7, 3, 7, 0, 9, 5, 5, 1, 6, 1, 5>>

WideZero == [i \in 1..U64_DIGITS |-> 0]

WideOne == [i \in 1..U64_DIGITS |-> IF i = U64_DIGITS THEN 1 ELSE 0]

\* Digit sequence d (at most U64_DIGITS long) with zeros put in front.
PadLeft(d) ==
    [i \in 1..U64_DIGITS |->
        IF i <= U64_DIGITS - Len(d) THEN 0 ELSE d[i - (U64_DIGITS - Len(d))]]

RECURSIVE StripZeros(_)
StripZeros(s) ==
    IF Len(s) > 1 /\ Head(s) = "0" THEN StripZeros(Tail(s)) ELSE s

\* a < b, for two numbers of U64_DIGITS digits
RECURSIVE WideLessFrom(_, _, _)
WideLessFrom(a, b, i) ==
    IF i > U64_DIGITS THEN FALSE
    ELSE IF a[i] # b[i] THEN a[i] < b[i]
    ELSE WideLessFrom(a, b, i + 1)

WideLess(a, b) == WideLessFrom(a, b, 1)

\* a - b for a >= b, digit by digit from the right with a borrow
RECURSIVE WideSubFrom(_, _, _, _)
WideSubFrom(a, b, i, borrow) ==
    IF i = 0 THEN <<>>
    ELSE LET d == a[i] - b[i] - borrow
         IN  Append(WideSubFrom(a, b, i - 1, IF d < 0 THEN 1 ELSE 0),
                    IF d < 0 THEN d + 10 ELSE d)

WideSub(a, b) == WideSubFrom(a, b, U64_DIGITS, 0)

\* u64::wrapping_sub: a - b modulo 2^64, which for a < b is
\* u64::MAX - (b - a - 1).
WrappingSub(a, b) ==
    IF WideLess(a, b)
    THEN WideSub(U64_MAX, WideSub(WideSub(b, a), WideOne))
    ELSE WideSub(a, b)

\* a / k for a small k, by long division from the left
RECURSIVE WideDivFrom(_, _, _, _)
WideDivFrom(a, k, i, rem) ==
    IF i > U64_DIGITS THEN <<>>
    ELSE LET cur == rem * 10 + a[i]
         IN  <<cur \div k>> \o WideDivFrom(a, k, i + 1, cur % k)

WideDiv(a, k) == WideDivFrom(a, k, 1, 0)

\* The number is below 10^9 (its last 9 digits hold it), so that a TLC
\* integer can take it.
FitsInt(a) == \A i \in 1..(U64_DIGITS - 9) : a[i] = 0

RECURSIVE WideToIntFrom(_, _, _)
WideToIntFrom(a, i, acc) ==
    IF i > U64_DIGITS THEN acc ELSE WideToIntFrom(a, i + 1, acc * 10 + a[i])

\* The number as a TLC integer; one that does not fit counts as 10^9.
WideToInt(a) ==
    IF FitsInt(a) THEN WideToIntFrom(a, U64_DIGITS - 9 + 1, 0)
    ELSE 1000000000

\* A TLC integer n >= 0 as a u64
ToWide(n) ==
    LET text == U64ToString(n)
    IN  PadLeft([i \in 1..Len(text) |-> DigitVal(text[i])])

\* str::parse::<u64> on text of any length: Err for empty text, a non-digit
\* or a number above u64::MAX; one leading "+" is accepted.
ParseU64Wide(s) ==
    LET body   == IF s # <<>> /\ Head(s) = "+" THEN Tail(s) ELSE s
        digits == StripZeros(body)
        wide   == PadLeft([i \in 1..Len(digits) |-> DigitVal(digits[i])])
    IN  IF body = <<>> \/ \E i \in 1..Len(body) : DigitVal(body[i]) < 0
        THEN [ok |-> FALSE, value |-> WideZero]
        ELSE IF Len(digits) > U64_DIGITS
        THEN [ok |-> FALSE, value |-> WideZero]
        ELSE IF WideLess(U64_MAX, wide)
        THEN [ok |-> FALSE, value |-> WideZero]
        ELSE [ok |-> TRUE, value |-> wide]

HexLower == <<"0", "1", "2", "3", "4", "5", "6", "7", "8", "9",
              "a", "b", "c", "d", "e", "f">>

HexUpper == <<"0", "1", "2", "3", "4", "5", "6", "7", "8", "9",
              "A", "B", "C", "D", "E", "F">>

\* the value of each hex digit, in either case
HexTable ==
    [c \in {HexLower[i] : i \in 1..16} \cup {HexUpper[i] : i \in 1..16} |->
        IF \E i \in 1..16 : HexLower[i] = c
        THEN (CHOOSE i \in 1..16 : HexLower[i] = c) - 1
        ELSE (CHOOSE i \in 1..16 : HexUpper[i] = c) - 1]

\* value of one hex digit, either case; -1 for any other character
HexVal(c) == IF c \in DOMAIN HexTable THEN HexTable[c] ELSE -1

\* hex::encode : two lower-case digits per byte
HexEncode(bytes) ==
    LET data == bytes
    IN  [i \in 1..(2 * Len(data)) |->
            LET b == data[(i + 1) \div 2]
            IN  IF i % 2 = 1 THEN HexLower[(b \div 16) + 1]
                ELSE HexLower[(b % 16) + 1]]

\* hex::decode : Err on odd length or on a character that is no hex digit
HexDecode(s) ==
    LET text == s
    IN  IF Len(text) % 2 = 1 \/ \E i \in 1..Len(text) : HexVal(text[i]) < 0
        THEN [ok |-> FALSE, bytes |-> <<>>]
        ELSE [ok |-> TRUE,
              bytes |-> [k \in 1..(Len(text) \div 2) |->
                            16 * HexVal(text[2 * k - 1]) + HexVal(text[2 * k])]]

----------------------------------------------------------------------------
(* The token, its canonical encoding and its signature *)

TrialToken(u, i, e) == [user_id |-> u, issued_at |-> i, expires_at |-> e]

NoToken == TrialToken(<<>>, 0, 0)

\* serde_json::to_string(&token): the fields in declaration order, the
\* numbers in decimal.
EncodeToken(t) ==
    << <<"user_id", t.user_id>>,
       <<"issued_at", U64ToString(t.issued_at)>>,
       <<"expires_at", U64ToString(t.expires_at)>> >>

\* serde_json::from_str::<TrialToken>: ok is FALSE for text that is not an
\* object with the three fields, or whose numbers are not JSON numbers.
DecodeToken(json) ==
    IF /\ Len(json) = 3
       /\ json[1][1] = "user_id"
       /\ json[2][1] = "issued_at"
       /\ json[3][1] = "expires_at"
       /\ json[2][2] # <<>> /\ ParseDigits(json[2][2], 0) >= 0
       /\ json[3][2] # <<>> /\ ParseDigits(json[3][2], 0) >= 0
    THEN [ok |-> TRUE,
          token |-> TrialToken(json[1][2], ParseDigits(json[2][2], 0),
                               ParseDigits(json[3][2], 0))]
    ELSE [ok |-> FALSE, token |-> NoToken]

CharCode(c) ==
    IF DigitVal(c) >= 0 THEN 48 + DigitVal(c)
    ELSE IF c = "a" THEN 97
    ELSE IF c = "b" THEN 98
    ELSE IF c = "+" THEN 43
    ELSE 32

\* token_json.as_bytes(): the bytes the signature covers
MessageBytes(json) ==
    LET codes(s) == [k \in 1..Len(s) |-> CharCode(s[k])]
    IN  codes(json[1][2]) \o <<255>> \o codes(json[2][2]) \o <<255>>
        \o codes(json[3][2])

\* SigningKey::sign : Ed25519 taken as an ideal deterministic signature, 64
\* bytes that determine the key and the message.
Sign(key, json) ==
    LET m == <<key>> \o MessageBytes(json)
    IN  [k \in 1..SIGNATURE_LENGTH |-> IF k <= Len(m) THEN m[k] ELSE 0]

\* a signature check that accepts whatever it is given
VerifySignature_AcceptAll(key, json, sig) == TRUE

\* VerifyingKey::verify
VerifySignature(key, json, sig) == sig = Sign(key, json)

\* issue_trial granting one day instead of fourteen
IssueTrial_OneDay(u, t, key) ==
    LET tok  == TrialToken(u, t, t + SECONDS_PER_DAY)
        json == EncodeToken(tok)
    IN  [token |-> json, signature |-> HexEncode(Sign(key, json))]

\* issue_trial: the TokenResponse for subject u at clock t under `key`
IssueTrial(u, t, key) ==
    LET tok  == TrialToken(u, t, t + TRIAL_SECONDS)
        json == EncodeToken(tok)
    IN  [token |-> json, signature |-> HexEncode(Sign(key, json))]

----------------------------------------------------------------------------
(* The revocation map and the check request *)

EmptyMap == [k \in {} |-> FALSE]

\* HashMap::insert that leaves only the inserted entry in the map
MapInsert_Only(m, key, v) == [k \in {key} |-> v]

\* HashMap::insert
MapInsert(m, key, v) ==
    [k \in (DOMAIN m) \cup {key} |-> IF k = key THEN v ELSE m[k]]

\* revoked_users.get(user_id).copied().unwrap_or(false)
IsRevoked(m, user_id) == IF user_id \in DOMAIN m THEN m[user_id] ELSE FALSE

CharOf(code) ==
    IF code >= 48 /\ code <= 57 THEN Digits[code - 47]
    ELSE IF code = 97 THEN "a"
    ELSE IF code = 98 THEN "b"
    ELSE IF code = 43 THEN "+"
    ELSE IF code = 32 THEN " "
    ELSE "?"

\* The value of user_id in the URL that format! builds and reqwest parses:
\* the text is inserted as it is, and the URL parser percent-encodes a space.
RECURSIVE UrlQueryValue(_)
UrlQueryValue(s) ==
    IF s = <<>> THEN <<>>
    ELSE IF Head(s) = " " THEN <<"%", "2", "0">> \o UrlQueryValue(Tail(s))
    ELSE <<Head(s)>> \o UrlQueryValue(Tail(s))

\* web::Query<CheckRequest>: the form-urlencoded value decoded, "+" to a
\* space and %XX to the character with that code.
RECURSIVE QueryUserId(_)
QueryUserId(s) ==
    IF s = <<>> THEN <<>>
    ELSE IF Head(s) = "+" THEN <<" ">> \o QueryUserId(Tail(s))
    ELSE IF Head(s) = "%" /\ Len(s) >= 3 /\ HexVal(s[2]) >= 0 /\ HexVal(s[3]) >= 0
    THEN <<CharOf(16 * HexVal(s[2]) + HexVal(s[3]))>>
         \o QueryUserId(SubSeq(s, 4, Len(s)))
    ELSE <<Head(s)>> \o QueryUserId(Tail(s))

\* A response body: json says whether it parses as a serde_json::Value, and
\* fields holds <<name, type, value>> of its members when it is an object.
NotJson == [json |-> FALSE, fields |-> {}]

JsonObject(fields) == [json |-> TRUE, fields |-> fields]

\* HttpResponse::Ok().json(CheckResponse { revoked, message })
CheckResponse(revoked) ==
    JsonObject({<<"revoked", "bool", IF revoked THEN "true" ELSE "false">>,
                <<"message", "string", IF revoked THEN "revoked" ELSE "active">>})

\* the authority's check_revocation handler on the query it receives
ServerCheckRevocation(m, query) == CheckResponse(IsRevoked(m, QueryUserId(query)))

\* Bodies other than the authority's that may reach the consumer: text that
\* is no JSON, an empty object, and an object whose `revoked` is no boolean.
MalformedBodies ==
    {NotJson, JsonObject({}), JsonObject({<<"revoked", "string", "true">>})}

\* data["revoked"].as_bool().unwrap_or(false)
RevokedOrFalse(body) ==
    \E f \in body.fields : f[1] = "revoked" /\ f[2] = "bool" /\ f[3] = "true"

NoNet == [kind |-> "none", query |-> <<>>, body |-> NotJson, intact |-> FALSE]

Request(query) == [kind |-> "req", query |-> query, body |-> NotJson, intact |-> FALSE]

Response(body, intact) ==
    [kind |-> "resp", query |-> <<>>, body |-> body, intact |-> intact]

NetErr == [kind |-> "err", query |-> <<>>, body |-> NotJson, intact |-> FALSE]

----------------------------------------------------------------------------
(* Files *)

NoFile == [exists |-> FALSE, content |-> <<>>]

File(content) == [exists |-> TRUE, content |-> content]

----------------------------------------------------------------------------
(* The consumer's functions *)

\* the expiry test of verify_trial_token made inclusive
IsExpired_Inclusive(t, expires_at) == t >= expires_at

\* the expiry test of verify_trial_token left out
IsExpired_Never(t, expires_at) == FALSE

\* now > token.expires_at
IsExpired(t, expires_at) == t > expires_at

VerifyResult(ok, why, tok, days, st) ==
    [ok |-> ok, outcome |-> why, token |-> tok, days |-> days, stages |-> st]

\* verify_trial_token at clock t. outcome names the branch taken, days is
\* days_ago of an expired token (days_remaining of a valid one), and stages
\* lists the steps executed before the function returned.
VerifyTrialToken(token_json, signature_hex, t) ==
    LET sig_bytes == HexDecode(Trim(signature_hex))
        parsed    == DecodeToken(token_json)
    IN  IF ~sig_bytes.ok
        THEN VerifyResult(FALSE, "invalid_signature_hex", NoToken, 0, <<>>)
        ELSE IF Len(sig_bytes.bytes) # SIGNATURE_LENGTH
        THEN VerifyResult(FALSE, "signature_not_64_bytes", NoToken, 0, <<>>)
        ELSE IF ~VerifySignature(PUBLIC_KEY_BYTES, token_json, sig_bytes.bytes)
        THEN VerifyResult(FALSE, "signature_verification_failed", NoToken, 0,
                          <<"signature">>)
        ELSE IF ~parsed.ok
        THEN VerifyResult(FALSE, "invalid_token_format", NoToken, 0,
                          <<"signature", "parse">>)
        ELSE IF IsExpired(t, parsed.token.expires_at)
        THEN VerifyResult(FALSE, "trial_expired", NoToken,
                          (t - parsed.token.expires_at) \div (24 * 60 * 60),
                          <<"signature", "parse", "expiry">>)
        ELSE VerifyResult(TRUE, "license_valid", parsed.token,
                          (parsed.token.expires_at - t) \div (24 * 60 * 60),
                          <<"signature", "parse", "expiry">>)

GateResult(ok, why, hours, file) ==
    [ok |-> ok, outcome |-> why, hours |-> hours, file |-> file]

\* check_grace_period with a missing file taken as a check made just now
CheckGracePeriod_MissingIsFresh(file, t) ==
    LET last_check        == IF file.exists THEN ParseU64Wide(Trim(file.content))
                             ELSE [ok |-> TRUE, value |-> ToWide(t)]
        hours_since_check == WideDiv(WrappingSub(ToWide(t), last_check.value), 3600)
    IN  IF ~last_check.ok
        THEN GateResult(FALSE, "unreadable_last_check", 0, file)
        ELSE IF ~WideLess(ToWide(GRACE_PERIOD_HOURS), hours_since_check)
        THEN GateResult(TRUE, "grace_period",
                        GRACE_PERIOD_HOURS - WideToInt(hours_since_check), file)
        ELSE GateResult(FALSE, "grace_expired", WideToInt(hours_since_check), file)

\* check_grace_period at clock t, on the last-check file as it is, in a
\* build without overflow checks: now - last_check wraps modulo 2^64. hours
\* is hours_remaining when admitted and hours_since_check when expired.
CheckGracePeriod(file, t) ==
    LET last_check        == ParseU64Wide(Trim(file.content))
        hours_since_check == WideDiv(WrappingSub(ToWide(t), last_check.value), 3600)
    IN  IF ~file.exists
        THEN GateResult(FALSE, "no_previous_check", 0, file)
        ELSE IF ~last_check.ok
        THEN GateResult(FALSE, "unreadable_last_check", 0, file)
        ELSE IF ~WideLess(ToWide(GRACE_PERIOD_HOURS), hours_since_check)
        THEN GateResult(TRUE, "grace_period",
                        GRACE_PERIOD_HOURS - WideToInt(hours_since_check), file)
        ELSE GateResult(FALSE, "grace_expired", WideToInt(hours_since_check), file)

\* now - last_check is below zero: a build with overflow checks (the dev
\* profile) panics there, "attempt to subtract with overflow".
SubtractOverflows(file, t) ==
    /\ file.exists
    /\ ParseU64Wide(Trim(file.content)).ok
    /\ WideLess(ToWide(t), ParseU64Wide(Trim(file.content)).value)

\* The process exit status of a Rust panic.
PANIC_EXIT_CODE == 101

\* check_revocation (consumer) once reqwest::get has resolved to `msg`, at
\* clock t. file is the last-check file the function leaves behind.
CheckRevocation(msg, file, t) ==
    IF msg.kind = "resp" /\ msg.body.json
    THEN LET written == File(U64ToString(t))
         IN  IF RevokedOrFalse(msg.body)
             THEN GateResult(FALSE, "revoked", 0, written)
             ELSE GateResult(TRUE, "verified_online", 0, written)
    ELSE CheckGracePeriod(file, t)

\* What check_revocation comes to in the builds cargo can produce: the
\* result with wrapping arithmetic, and, where the subtraction overflows, the
\* panic of a build with overflow checks.
CheckRevocationBuilds(msg, file, t) ==
    {CheckRevocation(msg, file, t)}
        \cup IF ~(msg.kind = "resp" /\ msg.body.json) /\ SubtractOverflows(file, t)
             THEN {GateResult(FALSE, "panicked", 0, file)}
             ELSE {}

----------------------------------------------------------------------------
(* State machine *)

NotServed == [reached |-> FALSE, after_revoke |-> FALSE]

\* No fs::write of the last-check file is under way.
NotWriting == [pc |-> "idle", rest |-> <<>>]

\* No attempt has read the last-check file.
NothingSeen == [got |-> NoFile, was |-> NoFile]

\* The authority's worker threads (HttpServer::new(..).run() starts several),
\* numbered from 1.
NumWorkers == 2

Workers == 1..NumWorkers

\* The TokenResponse of a handler that has not built one.
NoLicense == [token |-> <<>>, signature |-> <<>>]

\* What a worker knows about the request it is handling: the route, the
\* subject, the position in the handler, whether a revoke of the subject had
\* completed when the request started, the flag the handler read, whether it
\* read a map that was being updated, and the licence it has built.
Handling(op, user_id, at, after_revoke, revoked, saw_torn) ==
    [op |-> op, user_id |-> user_id, pc |-> at, after_revoke |-> after_revoke,
     revoked |-> revoked, saw_torn |-> saw_torn, license |-> NoLicense]

IdleHandler == Handling("none", <<>>, "idle", FALSE, FALSE, FALSE)

Init ==
    /\ now = 0
    /\ signing_key \in GeneratedKeys
    /\ revoked_users = EmptyMap
    /\ trial_token = NoFile
    /\ trial_signature = NoFile
    /\ last_check_file = NoFile
    /\ pc = "idle"
    /\ token = NoToken
    /\ net = NoNet
    /\ outcome = "none"
    /\ exit_code = -1
    /\ detail = 0
    /\ stages = <<>>
    /\ served = NotServed
    /\ revoke_done = {}
    /\ told_revoked = {}
    /\ expired_seen = FALSE
    /\ handler = [w \in Workers |-> IdleHandler]
    /\ lock_holder = 0
    /\ map_torn = FALSE
    /\ writer = NotWriting
    /\ recorded = NoFile
    /\ seen = NothingSeen

\* The clock moves forward. Nothing reads it between the decision and the
\* exit of a run, so it is held there.
Tick ==
    /\ pc # "done"
    /\ \E t \in TimePoints : t > now /\ now' = t
    /\ UNCHANGED <<signing_key, revoked_users, trial_token, trial_signature,
                   last_check_file, pc, token, net, outcome, exit_code, detail, stages,
                   served, revoke_done, told_revoked, expired_seen>>
    /\ UNCHANGED fineVars

\* get-license for subject u: POST /api/trial/issue, then both files written.
\* The consumer reads the files only in Startup, so a fetch during a run
\* has the effect of one right after it.
GetLicense(u) ==
    /\ pc = "idle"
    /\ LET license == IssueTrial(u, now, signing_key)
       IN  /\ trial_token' = File(license.token)
           /\ trial_signature' = File(license.signature)
    /\ UNCHANGED <<now, signing_key, revoked_users, last_check_file, pc, token,
                   net, outcome, exit_code, detail, stages, served, revoke_done,
                   told_revoked, expired_seen>>
    /\ UNCHANGED fineVars

\* POST /api/trial/revoke for subject u.
RevokeTrial(u) ==
    /\ revoked_users' = MapInsert(revoked_users, u, TRUE)
    /\ revoke_done' = revoke_done \cup {u}
    /\ UNCHANGED <<now, signing_key, trial_token, trial_signature,
                   last_check_file, pc, token, net, outcome, exit_code, detail, stages,
                   served, told_revoked, expired_seen>>
    /\ UNCHANGED fineVars

\* The consumer's main from start-up to the end of verify_trial_token.
Startup ==
    /\ pc = "idle"
    /\ IF ~trial_token.exists
       THEN /\ outcome' = "token_file_missing"
            /\ exit_code' = 1
            /\ pc' = "done"
            /\ UNCHANGED <<token, stages, detail>>
       ELSE IF ~trial_signature.exists
       THEN /\ outcome' = "signature_file_missing"
            /\ exit_code' = 1
            /\ pc' = "done"
            /\ UNCHANGED <<token, stages, detail>>
       ELSE LET r == VerifyTrialToken(trial_token.content,
                                      Trim(trial_signature.content), now)
            IN  /\ stages' = r.stages
                /\ token' = r.token
                /\ outcome' = r.outcome
                /\ detail' = r.days
                /\ exit_code' = IF r.ok THEN -1 ELSE 1
                /\ pc' = IF r.ok THEN "verified" ELSE "done"
    /\ UNCHANGED <<now, signing_key, revoked_users, trial_token, trial_signature,
                   last_check_file, net, served, revoke_done, told_revoked,
                   expired_seen>>
    /\ UNCHANGED fineVars

\* check_revocation sends GET /api/trial/check?user_id=<token.user_id>.
SendCheck ==
    /\ pc = "verified"
    /\ net' = Request(UrlQueryValue(token.user_id))
    /\ pc' = "requested"
    /\ stages' = Append(stages, "gate")
    /\ UNCHANGED <<now, signing_key, revoked_users, trial_token, trial_signature,
                   last_check_file, token, outcome, exit_code, detail, served,
                   revoke_done, told_revoked, expired_seen>>
    /\ UNCHANGED fineVars

\* The authority answers the request in flight.
ServerCheck ==
    /\ net.kind = "req"
    /\ net' = Response(ServerCheckRevocation(revoked_users, net.query), TRUE)
    /\ served' = [reached |-> TRUE, after_revoke |-> token.user_id \in revoke_done]
    /\ UNCHANGED <<now, signing_key, revoked_users, trial_token, trial_signature,
                   last_check_file, pc, token, outcome, exit_code, detail, stages,
                   revoke_done, told_revoked, expired_seen>>
    /\ UNCHANGED fineVars

\* The connection fails: reqwest::get returns Err.
NetError ==
    /\ net.kind \in {"req", "resp"}
    /\ net' = NetErr
    /\ UNCHANGED <<now, signing_key, revoked_users, trial_token, trial_signature,
                   last_check_file, pc, token, outcome, exit_code, detail, stages,
                   served, revoke_done, told_revoked, expired_seen>>
    /\ UNCHANGED fineVars

\* Something between the authority and the consumer replaces the body.
Garble(body) ==
    /\ net.kind \in {"req", "resp"}
    /\ net.kind = "resp" => net.intact
    /\ net' = Response(body, FALSE)
    /\ UNCHANGED <<now, signing_key, revoked_users, trial_token, trial_signature,
                   last_check_file, pc, token, outcome, exit_code, detail, stages,
                   served, revoke_done, told_revoked, expired_seen>>
    /\ UNCHANGED fineVars

\* check_revocation resumes with the response or the error, and main ends
\* the run: the licensed application (exit 0) or exit(1).
Receive ==
    /\ pc = "requested"
    /\ net.kind \in {"resp", "err"}
    /\ \E r \in CheckRevocationBuilds(net, last_check_file, now) :
           /\ last_check_file' = r.file
           /\ outcome' = r.outcome
           /\ detail' = r.hours
           /\ exit_code' = IF r.ok THEN 0
                            ELSE IF r.outcome = "panicked" THEN PANIC_EXIT_CODE
                            ELSE 1
           /\ told_revoked' = IF r.outcome = "revoked"
                              THEN told_revoked \cup {token.user_id}
                              ELSE told_revoked
           /\ expired_seen' = IF r.outcome = "grace_expired" THEN TRUE
                              ELSE IF r.outcome = "verified_online" THEN FALSE
                              ELSE expired_seen
    /\ pc' = "done"
    /\ UNCHANGED <<now, signing_key, revoked_users, trial_token, trial_signature,
                   token, net, stages, served, revoke_done>>
    /\ UNCHANGED fineVars

\* The process has exited; the next run starts from scratch.
Exit ==
    /\ pc = "done"
    /\ pc' = "idle"
    /\ token' = NoToken
    /\ net' = NoNet
    /\ outcome' = "none"
    /\ exit_code' = -1
    /\ detail' = 0
    /\ stages' = <<>>
    /\ served' = NotServed
    /\ UNCHANGED <<now, signing_key, revoked_users, trial_token, trial_signature,
                   last_check_file, revoke_done, told_revoked, expired_seen>>
    /\ UNCHANGED fineVars

\* One character of the stored signature hex is overwritten.
TamperPositions == {1, 2 * SIGNATURE_LENGTH}

TamperChars == {"B", "c", "g", " "}

Tamper ==
    /\ pc = "idle"
    /\ trial_token.exists /\ trial_signature.exists
    /\ trial_signature.content =
           HexEncode(Sign(signing_key, trial_token.content))
    /\ \E p \in TamperPositions, c \in TamperChars :
           /\ trial_signature.content[p] # c
           /\ trial_signature' = File([trial_signature.content EXCEPT ![p] = c])
    /\ UNCHANGED <<now, signing_key, revoked_users, trial_token,
                   last_check_file, pc, token, net, outcome, exit_code, detail,
                   stages, served, revoke_done, told_revoked, expired_seen>>
    /\ UNCHANGED fineVars

Next ==
    \/ Tick
    \/ \E u \in UserIds : GetLicense(u)
    \/ \E u \in UserIds : RevokeTrial(u)
    \/ Startup
    \/ SendCheck
    \/ ServerCheck
    \/ NetError
    \/ \E b \in MalformedBodies : Garble(b)
    \/ Receive
    \/ Exit
    \/ Tamper

Spec == Init /\ [][Next]_vars

----------------------------------------------------------------------------
(* Vocabulary of the properties *)

\* The consumer's request was answered by the authority and the answer
\* arrived as the authority sent it.
AuthorityAnswered == net.kind = "resp" /\ net.intact

\* The answer in flight is JSON carrying a boolean `revoked` field.
WellFormedAnswer ==
    /\ net.kind = "resp"
    /\ net.body.json
    /\ \E f \in net.body.fields : f[1] = "revoked" /\ f[2] = "bool"

AnsweredNotRevoked ==
    /\ WellFormedAnswer
    /\ \E f \in net.body.fields : f[1] = "revoked" /\ f[2] = "bool" /\ f[3] = "false"

\* The authority cannot be reached: reqwest::get returned Err.
Unreachable == net.kind = "err"

\* The step in which check_revocation decides.
GateDecides == pc = "requested" /\ pc' = "done"

\* The recorded LastOnlineCheck, -1 when the file is absent or unreadable.
LastOnlineCheck ==
    IF last_check_file.exists THEN ParseU64(Trim(last_check_file.content)) ELSE -1

----------------------------------------------------------------------------
(* C1 *)

\* C1 (as claimed): a check for subject s that the authority answered after
\* revoke(s) had completed, and whose answer arrived well-formed, decides
\* deny, whatever LastOnlineCheck is.
C1_RevokedSubjectDenied ==
    (pc = "done" /\ AuthorityAnswered /\ WellFormedAnswer /\ served.after_revoke)
        => (exit_code = 1 /\ outcome = "revoked")

\* C1, for the subjects whose identifier reaches the authority unchanged
\* through the URL query: such a check is denied as revoked.
C1_UnchangedSubjectDenied ==
    (/\ pc = "done" /\ AuthorityAnswered /\ WellFormedAnswer /\ served.after_revoke
     /\ QueryUserId(UrlQueryValue(token.user_id)) = token.user_id)
        => (exit_code = 1 /\ outcome = "revoked")

----------------------------------------------------------------------------
(* C2 *)

\* C2 (as claimed): once this consumer has been answered 'revoked' for a
\* subject, every later check for it that cannot reach the authority denies.
C2_RevokedStaysDeniedOffline ==
    (pc = "done" /\ Unreachable /\ token.user_id \in told_revoked)
        => exit_code = 1

----------------------------------------------------------------------------
(* C3 *)

\* C3 (as claimed): LastOnlineCheck changes only in a check that reached the
\* authority and was answered 'not revoked', and it is then set to now.
C3_LastCheckOnlyOnSuccess ==
    [][last_check_file' # last_check_file
          => /\ GateDecides
             /\ AnsweredNotRevoked
             /\ last_check_file' = File(U64ToString(now))]_vars

----------------------------------------------------------------------------
(* C4 *)

\* C4 (as claimed): with the authority unreachable and a LastOnlineCheck on
\* record, the gate admits exactly when now - LastOnlineCheck <= 86400 s.
C4_GraceWindowInSeconds ==
    [][(GateDecides /\ Unreachable /\ LastOnlineCheck >= 0)
          => (exit_code' = 0 <=> now - LastOnlineCheck <= 86400)]_vars

----------------------------------------------------------------------------
(* C5 *)

\* The step in which main runs verify_trial_token on the two files.
VerifyRuns ==
    pc = "idle" /\ pc' # "idle" /\ trial_token.exists /\ trial_signature.exists

\* The stored grant is what an authority holding the embedded key issued.
AuthenticGrant ==
    /\ trial_token.exists /\ trial_signature.exists
    /\ trial_signature.content =
           HexEncode(Sign(PUBLIC_KEY_BYTES, trial_token.content))

StoredToken == DecodeToken(trial_token.content).token

\* n is floor((now - expires_at) / 86400) of the stored token
IsDaysOverdue(n) ==
    /\ n * 86400 <= now - StoredToken.expires_at
    /\ now - StoredToken.expires_at < (n + 1) * 86400

\* C5 (as claimed): an authentic token is rejected when expires_at <= now,
\* with the day count floor((now - expires_at) / 86400), and accepted when
\* expires_at > now.
C5_ExpiredAtOrBeforeNow ==
    [][(VerifyRuns /\ AuthenticGrant)
          => IF StoredToken.expires_at <= now
             THEN pc' = "done" /\ exit_code' = 1 /\ outcome' = "trial_expired"
                  /\ IsDaysOverdue(detail')
             ELSE pc' = "verified" /\ token' = StoredToken]_vars

\* C5 (amended): an authentic token is rejected exactly when now is past
\* expires_at (it is still accepted at now = expires_at), and the rejection
\* reports floor((now - expires_at) / 86400) days.
C5_ExpiredAfterExpiresAt ==
    [][(VerifyRuns /\ AuthenticGrant)
          => IF StoredToken.expires_at < now
             THEN pc' = "done" /\ exit_code' = 1 /\ outcome' = "trial_expired"
                  /\ IsDaysOverdue(detail')
             ELSE pc' = "verified" /\ token' = StoredToken]_vars

\* An authentic token was rejected a whole day after its expiry.
C5_Witness ==
    /\ pc = "done" /\ AuthenticGrant /\ outcome = "trial_expired"
    /\ now = StoredToken.expires_at + 86400 /\ detail = 1

----------------------------------------------------------------------------
(* C6 *)

\* C6 (as claimed): an answer that is no JSON, or JSON without a boolean
\* `revoked`, is handled as an unreachable authority: the grace-period
\* decision, LastOnlineCheck untouched, never 'verified online'.
C6_MalformedIsUnreachable ==
    [][(GateDecides /\ net.kind = "resp" /\ ~WellFormedAnswer)
          => /\ last_check_file' = last_check_file
             /\ outcome' # "verified_online"
             /\ exit_code' = 0 <=> CheckGracePeriod(last_check_file, now).ok]_vars

----------------------------------------------------------------------------
(* C7 *)

\* C7: a check that cannot reach the authority while no LastOnlineCheck has
\* been recorded denies, also for an authentic, unexpired token.
C7_NoPriorCheckDenied ==
    (pc = "done" /\ Unreachable /\ ~last_check_file.exists)
        => (exit_code = 1 /\ outcome = "no_previous_check")

\* A verified token was denied offline for want of any recorded check.
C7_Witness ==
    /\ pc = "done" /\ Unreachable /\ ~last_check_file.exists
    /\ token # NoToken /\ now <= token.expires_at
    /\ exit_code = 1

----------------------------------------------------------------------------
(* C8 *)

\* C8 (as claimed): once an unreachable check has denied with
\* GracePeriodExpired, every later unreachable check denies too, until an
\* online check has admitted.
C8_ExpiredGraceStaysExpired ==
    (pc = "done" /\ Unreachable /\ expired_seen) => exit_code = 1

----------------------------------------------------------------------------
(* C9 *)

\* The signature text the authority issued for the stored token.
IssuedSignature == HexEncode(Sign(signing_key, trial_token.content))

\* The positions at which the stored signature differs from the issued one.
TamperDiff ==
    LET issued == IssuedSignature
    IN  {q \in 1..Len(issued) : trial_signature.content[q] # issued[q]}

\* The stored signature is the issued one with one character replaced.
OneByteTampered ==
    /\ trial_token.exists /\ trial_signature.exists
    /\ Len(trial_signature.content) = 2 * SIGNATURE_LENGTH
    /\ Cardinality(TamperDiff) = 1

TamperedPosition == CHOOSE p \in TamperDiff : TRUE

HexChars == {HexLower[i] : i \in 1..16} \cup {HexUpper[i] : i \in 1..16}

LowerCase(c) ==
    IF \E i \in 1..16 : HexUpper[i] = c
    THEN HexLower[CHOOSE i \in 1..16 : HexUpper[i] = c]
    ELSE c

\* The run ends in verify_trial_token before any token field is parsed.
RejectedUnparsed ==
    /\ pc' = "done" /\ exit_code' = 1 /\ token' = NoToken
    /\ \A k \in 1..Len(stages') : stages'[k] \notin {"parse", "expiry", "gate"}
    /\ net' = NoNet

\* C9 (as claimed): with one byte of the stored signature hex tampered, the
\* run fails with the signature-mismatch error, parses nothing, makes no
\* revocation request and does not admit.
C9_TamperedIsAuthenticityError ==
    [][(VerifyRuns /\ OneByteTampered)
          => (outcome' = "signature_verification_failed" /\ RejectedUnparsed)]_vars

\* C9 (amended): a tampered byte that is no hex digit fails the run with the
\* invalid-hex error, one that is a hex digit of another value fails it with
\* the signature-mismatch error, in both cases before anything is parsed or
\* requested; one that only changes the letter case of a hex digit leaves
\* the signature bytes the same, and a grant of the embedded key is still
\* verified and parsed.
C9_TamperedByDecodedValue ==
    [][(VerifyRuns /\ OneByteTampered)
          => LET p == TamperedPosition
                 c == trial_signature.content[p]
             IN  IF c \notin HexChars
                 THEN outcome' = "invalid_signature_hex" /\ RejectedUnparsed
                 ELSE IF LowerCase(c) # IssuedSignature[p]
                 THEN outcome' = "signature_verification_failed"
                      /\ RejectedUnparsed
                 ELSE signing_key = PUBLIC_KEY_BYTES
                          => \E k \in 1..Len(stages') : stages'[k] = "parse"]_vars

\* A grant of the embedded key, one hex digit changed, failed verification.
C9_Witness ==
    /\ pc = "done" /\ OneByteTampered /\ signing_key = PUBLIC_KEY_BYTES
    /\ outcome = "signature_verification_failed" /\ exit_code = 1

----------------------------------------------------------------------------
(* C10 *)

\* The stored signature decodes to 64 bytes that verify over the stored token.
SignatureVerifies ==
    LET d == HexDecode(Trim(trial_signature.content))
    IN  /\ d.ok
        /\ Len(d.bytes) = 64
        /\ d.bytes = Sign(PUBLIC_KEY_BYTES, trial_token.content)

StageOrder == <<"signature", "parse", "expiry", "gate">>

\* The run has not come to the revocation gate.
BeforeGate == \A k \in 1..Len(stages) : stages[k] # "gate"

\* C10: the stages of a run are a prefix of signature, parse, expiry, gate;
\* a token is parsed only from a grant whose signature verified; a request
\* goes to the authority only from a run whose token was parsed and found
\* unexpired; and a run that ended before the gate has sent no request and
\* leaves LastOnlineCheck untouched.
C10_StagesInOrder ==
    [][/\ stages' = SubSeq(StageOrder, 1, Len(stages'))
       /\ (token' # NoToken /\ token = NoToken)
              => (VerifyRuns /\ SignatureVerifies /\ token' = StoredToken
                  /\ now <= StoredToken.expires_at)
       /\ (net' # net /\ net.kind = "none")
              => (pc = "verified" /\ token # NoToken
                  /\ stages = <<"signature", "parse", "expiry">>)
       /\ last_check_file' # last_check_file
              => (pc = "requested" /\ ~BeforeGate /\ token # NoToken)
       /\ (pc = "done" /\ BeforeGate)
              => (net = NoNet /\ net' = NoNet /\ last_check_file' = last_check_file)
      ]_vars

\* A run with a LastOnlineCheck on record ended at the expiry check, with no
\* request in flight.
C10_Witness ==
    /\ pc = "done" /\ outcome = "trial_expired" /\ exit_code = 1
    /\ stages = <<"signature", "parse", "expiry">>
    /\ last_check_file.exists /\ net = NoNet

----------------------------------------------------------------------------
(* C11 *)

\* The steps the consumer process takes by itself. reqwest::get is called
\* without a timeout, so while the request is outstanding the awaiting task
\* has no step of its own: it resumes only in Receive, on a response or a
\* connection error.
ConsumerStep == Startup \/ SendCheck \/ Receive \/ Exit

\* C11 (as claimed): a revocation check never waits on the authority without
\* bound: while it is under way the consumer can always go on by itself, to
\* the unreachable branch if no answer has come.
C11_CheckNeverWaitsUnbounded == pc = "requested" => ENABLED ConsumerStep

----------------------------------------------------------------------------
(* The authority's handlers, step by step on concurrent worker threads *)

\* The authority's key, and everything outside the authority process but
\* the clock.
outsideAuthority ==
    <<signing_key, trial_token, trial_signature, last_check_file, pc,
      token, net, outcome, exit_code, detail, stages, served, told_revoked,
      expired_seen>>

Routes == {"issue", "revoke", "check"}

\* The clock readings at which the authority's threads are observed.
AuthorityTimes == {0, SECONDS_PER_DAY, TRIAL_SECONDS}

\* The clock moves on while the authority runs.
AuthorityTick == Tick /\ now' \in AuthorityTimes

\* Mutex::lock with every request taken in at once
CanLock_Always(holder) == TRUE

\* Mutex::lock goes through only while no thread holds the guard.
CanLock(holder) == holder = 0

\* A worker takes in a request for subject u.
AcceptRequest(w, op, u) ==
    /\ handler[w].pc = "idle"
    /\ handler' = [handler EXCEPT ![w] =
           Handling(op, u, IF op = "issue" THEN "issue" ELSE "lock",
                    op = "check" /\ u \in revoke_done, FALSE, FALSE)]
    /\ UNCHANGED <<revoked_users, revoke_done, lock_holder, map_torn>>
    /\ UNCHANGED <<now, outsideAuthority, raceVars>>

\* issue_trial reads the clock, builds the token and signs it. It never
\* touches revoked_users.
IssueStep(w) ==
    /\ handler[w].pc = "issue"
    /\ handler' = [handler EXCEPT
           ![w].license = IssueTrial(handler[w].user_id, now, signing_key),
           ![w].pc = "respond"]
    /\ UNCHANGED <<revoked_users, revoke_done, lock_holder, map_torn>>
    /\ UNCHANGED <<now, outsideAuthority, raceVars>>

\* state.revoked_users.lock().unwrap()
Lock(w) ==
    /\ handler[w].pc = "lock"
    /\ CanLock(lock_holder)
    /\ lock_holder' = w
    /\ handler' = [handler EXCEPT ![w].pc = "locked"]
    /\ UNCHANGED <<revoked_users, revoke_done, map_torn>>
    /\ UNCHANGED <<now, outsideAuthority, raceVars>>

\* check_revocation: .get(&query.user_id).copied().unwrap_or(false)
MapGet(w) ==
    /\ handler[w].pc = "locked" /\ handler[w].op = "check"
    /\ handler' = [handler EXCEPT
           ![w].revoked = IsRevoked(revoked_users, handler[w].user_id),
           ![w].saw_torn = map_torn,
           ![w].pc = "unlock"]
    /\ UNCHANGED <<revoked_users, revoke_done, lock_holder, map_torn>>
    /\ UNCHANGED <<now, outsideAuthority, raceVars>>

\* revoke_trial: .insert(user_id, true) starts changing the table ...
MapInsertBegin(w) ==
    /\ handler[w].pc = "locked" /\ handler[w].op = "revoke"
    /\ map_torn' = TRUE
    /\ handler' = [handler EXCEPT ![w].pc = "inserting"]
    /\ UNCHANGED <<revoked_users, revoke_done, lock_holder>>
    /\ UNCHANGED <<now, outsideAuthority, raceVars>>

\* ... and has changed it.
MapInsertEnd(w) ==
    /\ handler[w].pc = "inserting"
    /\ revoked_users' = MapInsert(revoked_users, handler[w].user_id, TRUE)
    /\ map_torn' = FALSE
    /\ handler' = [handler EXCEPT ![w].pc = "unlock"]
    /\ UNCHANGED <<revoke_done, lock_holder>>
    /\ UNCHANGED <<now, outsideAuthority, raceVars>>

\* The MutexGuard temporary is dropped at the end of the statement.
Unlock(w) ==
    /\ handler[w].pc = "unlock"
    /\ lock_holder' = 0
    /\ handler' = [handler EXCEPT ![w].pc = "respond"]
    /\ UNCHANGED <<revoked_users, revoke_done, map_torn>>
    /\ UNCHANGED <<now, outsideAuthority, raceVars>>

\* The handler returns its response: the request has completed.
Respond(w) ==
    /\ handler[w].pc = "respond"
    /\ revoke_done' = IF handler[w].op = "revoke"
                      THEN revoke_done \cup {handler[w].user_id}
                      ELSE revoke_done
    /\ handler' = [handler EXCEPT ![w] = IdleHandler]
    /\ UNCHANGED <<revoked_users, lock_holder, map_torn>>
    /\ UNCHANGED <<now, outsideAuthority, raceVars>>

NextAuthority ==
    \/ AuthorityTick
    \/ \E w \in Workers, op \in Routes, u \in UserIds : AcceptRequest(w, op, u)
    \/ \E w \in Workers : IssueStep(w)
    \/ \E w \in Workers : Lock(w)
    \/ \E w \in Workers : MapGet(w)
    \/ \E w \in Workers : MapInsertBegin(w)
    \/ \E w \in Workers : MapInsertEnd(w)
    \/ \E w \in Workers : Unlock(w)
    \/ \E w \in Workers : Respond(w)

\* The authority started with the key pair the consumer's PUBLIC_KEY_BYTES
\* belongs to.
InitAuthority == Init /\ signing_key = PUBLIC_KEY_BYTES

SpecAuthority == InitAuthority /\ [][NextAuthority]_vars

----------------------------------------------------------------------------
(* C12 *)

\* The worker has read the flag and not yet answered.
HasRead(w) == handler[w].op = "check" /\ handler[w].pc \in {"unlock", "respond"}

InCriticalSection(w) == handler[w].pc \in {"locked", "inserting", "unlock"}

\* C12: under any interleaving of issue, revoke and check requests, a check
\* for subject s that started after a revoke(s) had completed answers
\* revoked = true; no check reads the map while an insert is under way, and
\* at most one worker is between lock and unlock.
C12_RevocationImmediatelyVisible ==
    /\ \A w \in Workers :
           HasRead(w) => /\ handler[w].after_revoke => handler[w].revoked
                         /\ ~handler[w].saw_torn
    /\ \A w1, w2 \in Workers :
           (InCriticalSection(w1) /\ InCriticalSection(w2)) => w1 = w2

\* A check that started after a completed revoke has read `true` while a
\* second revoke waits for the lock.
C12_Witness ==
    \E w1, w2 \in Workers :
        /\ HasRead(w1) /\ handler[w1].pc = "unlock"
        /\ handler[w1].after_revoke /\ handler[w1].revoked
        /\ handler[w2].op = "revoke" /\ handler[w2].pc = "lock"

----------------------------------------------------------------------------
(* C13 *)

\* The subjects a request can name, one of them never issued or revoked.
Subjects == UserIds \cup {<<"z">>}

\* revoke_trial has inserted for subject u: in a request that has completed,
\* or in one that is past its insert.
RevokeApplied(u) ==
    \/ u \in revoke_done
    \/ \E w \in Workers : /\ handler[w].op = "revoke" /\ handler[w].user_id = u
                          /\ handler[w].pc \in {"unlock", "respond"}

\* C13: is_revoked(s) holds exactly when revoke(s) has been carried out
\* before (so it is false for subjects never revoked and for unknown ones);
\* a step changes the map only by setting the flag of the subject being
\* revoked, repeating a revoke changes nothing, and no step clears a flag or
\* removes an entry.
C13_RevokedIffRevokeCalled ==
    /\ [](\A u \in Subjects : IsRevoked(revoked_users, u) <=> RevokeApplied(u))
    /\ [][/\ \A u \in Subjects :
                 IsRevoked(revoked_users, u) => IsRevoked(revoked_users', u)
          /\ DOMAIN revoked_users \subseteq DOMAIN revoked_users'
          /\ \A w \in Workers :
                 MapInsertEnd(w) =>
                     /\ \A u \in Subjects \ {handler[w].user_id} :
                            IsRevoked(revoked_users', u) = IsRevoked(revoked_users, u)
                     /\ IsRevoked(revoked_users', handler[w].user_id)
                     /\ IsRevoked(revoked_users, handler[w].user_id)
                            => revoked_users' = revoked_users
          /\ revoked_users' # revoked_users => \E w \in Workers : MapInsertEnd(w)
         ]_vars

\* A second revoke of "a" has just inserted, with "b" revoked before and the
\* unknown subject absent from the map.
C13_Witness ==
    /\ \E w \in Workers : /\ handler[w].op = "revoke" /\ handler[w].pc = "unlock"
                          /\ handler[w].user_id = <<"a">>
    /\ <<"a">> \in revoke_done
    /\ IsRevoked(revoked_users, <<"b", "+">>)
    /\ ~IsRevoked(revoked_users, <<"z">>)

----------------------------------------------------------------------------
(* C14 *)

\* The token of the licence worker w has built, as a consumer decodes it.
IssuedToken(w) == DecodeToken(handler[w].license.token).token

\* C14: an issue request is taken in and answered in every authority state,
\* also for a revoked subject and for one that already holds grants; the
\* token returned carries issued_at = now and expires_at = issued_at +
\* 1209600 > issued_at under the authority's signature, and issuing leaves
\* the revocation map as it was.
C14_IssueAlwaysSucceeds ==
    /\ [](\A w \in Workers :
              handler[w].pc = "idle" => \A u \in UserIds : ENABLED AcceptRequest(w, "issue", u))
    /\ [][\A w \in Workers :
              handler[w].pc = "issue" =>
                  /\ handler'[w].pc \in {"issue", "respond"}
                  /\ handler'[w].pc = "respond" =>
                         LET license == handler'[w].license
                             issued  == DecodeToken(license.token)
                             sig     == HexDecode(license.signature)
                         IN  /\ issued.ok
                             /\ issued.token.user_id = handler[w].user_id
                             /\ issued.token.issued_at = now
                             /\ issued.token.expires_at
                                    = issued.token.issued_at + 1209600
                             /\ issued.token.expires_at > issued.token.issued_at
                             /\ sig.ok
                             /\ VerifySignature(signing_key, license.token, sig.bytes)
                             /\ revoked_users' = revoked_users]_vars

\* Two grants have been built for subject "a" after its revocation, the
\* second one later than the first.
C14_Witness ==
    \E w1, w2 \in Workers :
        /\ w1 # w2
        /\ handler[w1].op = "issue" /\ handler[w1].pc = "respond"
        /\ handler[w2].op = "issue" /\ handler[w2].pc = "respond"
        /\ handler[w1].user_id = <<"a">> /\ handler[w2].user_id = <<"a">>
        /\ IsRevoked(revoked_users, <<"a">>) /\ <<"a">> \in revoke_done
        /\ IssuedToken(w1).issued_at < IssuedToken(w2).issued_at
        /\ IssuedToken(w2).issued_at = now

----------------------------------------------------------------------------
(* C15 *)

\* main starts: the step from the process start to the end of
\* verify_trial_token.
StartsRun == pc = "idle" /\ pc' # "idle"

\* Both files are there, the signature verifies under the embedded key, the
\* token parses and it is not expired at the current clock.
PassesVerification ==
    /\ trial_token.exists /\ trial_signature.exists
    /\ SignatureVerifies
    /\ DecodeToken(trial_token.content).ok
    /\ ~(now > StoredToken.expires_at)

\* The branches of check_revocation and check_grace_period that return Ok.
AdmitOutcomes == {"verified_online", "grace_period"}

\* Every branch in which main calls exit(1), and the panic.
FailureOutcomes ==
    {"token_file_missing", "signature_file_missing", "invalid_signature_hex",
     "signature_not_64_bytes", "signature_verification_failed",
     "invalid_token_format", "trial_expired", "revoked", "no_previous_check",
     "unreadable_last_check", "grace_expired", "panicked"}

\* C15: a run goes on to the revocation gate exactly when both files are
\* present, the signature verifies and the token is unexpired, and otherwise
\* exits non-zero; at the gate it exits 0 exactly when the gate admits; so
\* exit 0 is reached only through all four stages and every failure branch
\* exits non-zero.
C15_ExitZeroIffAllPass ==
    /\ [][StartsRun =>
              /\ pc' = "verified" <=> PassesVerification
              /\ pc' = "verified" => exit_code' = -1
              /\ pc' # "verified" => (pc' = "done" /\ exit_code' > 0)]_vars
    /\ [][GateDecides =>
              /\ outcome' \in AdmitOutcomes \cup FailureOutcomes
              /\ exit_code' = 0 <=> outcome' \in AdmitOutcomes]_vars
    /\ [](exit_code = 0 =>
              (pc = "done" /\ stages = StageOrder /\ outcome \in AdmitOutcomes))
    /\ [](pc = "done" =>
              /\ exit_code >= 0
              /\ outcome \in FailureOutcomes <=> exit_code > 0)

\* A run admitted through the grace period has reached the licensed
\* application.
C15_Witness ==
    /\ pc = "done" /\ exit_code = 0 /\ outcome = "grace_period"
    /\ stages = StageOrder /\ Unreachable

----------------------------------------------------------------------------
(* Two verification attempts at once on the last-check file *)

\* Everything but the clock, the last-check file and the deciding attempt's
\* result.
outsideRace ==
    <<signing_key, revoked_users, trial_token, trial_signature, pc, token, net,
      stages, served, revoke_done, told_revoked, expired_seen, authorityVars>>

\* An attempt that got a JSON answer enters fs::write: File::create opens
\* the file with O_TRUNC, which leaves it empty.
WriteOpen ==
    /\ writer.pc = "idle"
    /\ last_check_file' = File(<<>>)
    /\ writer' = [pc |-> "writing", rest |-> U64ToString(now)]
    /\ UNCHANGED <<now, outcome, exit_code, detail, recorded, seen>>
    /\ UNCHANGED outsideRace

\* write_all: one write(2) call takes the next k bytes, all that are left or
\* fewer; after the last one the file is closed.
WriteSome(k) ==
    /\ writer.pc = "writing"
    /\ k \in 1..Len(writer.rest)
    /\ LET content == last_check_file.content \o SubSeq(writer.rest, 1, k)
           rest    == SubSeq(writer.rest, k + 1, Len(writer.rest))
       IN  /\ last_check_file' = File(content)
           /\ writer' = IF rest = <<>> THEN NotWriting
                        ELSE [pc |-> "writing", rest |-> rest]
           /\ recorded' = IF rest = <<>> THEN File(content) ELSE recorded
    /\ UNCHANGED <<now, outcome, exit_code, detail, seen>>
    /\ UNCHANGED outsideRace

\* Another attempt, with the authority out of reach, runs
\* check_grace_period: fs::read_to_string, then the decision.
ReadAndDecide ==
    /\ \E r \in CheckRevocationBuilds(NetErr, last_check_file, now) :
           /\ outcome' = r.outcome
           /\ detail' = r.hours
           /\ exit_code' = IF r.ok THEN 0
                            ELSE IF r.outcome = "panicked" THEN PANIC_EXIT_CODE
                            ELSE 1
    /\ seen' = [got |-> last_check_file, was |-> recorded]
    /\ UNCHANGED <<now, last_check_file, writer, recorded>>
    /\ UNCHANGED outsideRace

\* The clock readings at which the two attempts are observed: the start,
\* and the ends of the grace window as the code and as the claim have it.
RaceTimes ==
    {0, GRACE_PERIOD_HOURS * SECONDS_PER_HOUR,
     (GRACE_PERIOD_HOURS + 1) * SECONDS_PER_HOUR}

\* The clock moves on between the steps of the two attempts.
RaceTick == Tick /\ now' \in RaceTimes

NextRace ==
    \/ RaceTick
    \/ WriteOpen
    \/ \E k \in 1..Len(writer.rest) : WriteSome(k)
    \/ ReadAndDecide

SpecRace == Init /\ [][NextRace]_vars

----------------------------------------------------------------------------
(* C16 *)

\* C16 (as claimed): an attempt that reads the last-check file while another
\* one is recording an online check gets the file as a complete write left
\* it, the earlier text or the new one, never an empty or partial text; so
\* it decides on a recorded value.
C16_ReaderSeesRecordedValue == seen.got = seen.was

----------------------------------------------------------------------------
(* C17 *)

\* The subject whose revocation is followed.
Followed == <<"a">>

\* revoke(s) is carried out at the authority at the start of time, r = 0.
RevokeAtStart == now = 0 /\ RevokeTrial(Followed)

\* The clock moves on between the runs of the consumer; a run is over
\* within one clock reading, so that a run deciding after time 0 began after
\* the revoke.
TickBetweenRuns == pc = "idle" /\ Tick

\* The authority, the consumer and the network with the one subject, whose
\* identifier passes the URL unchanged, and with answers that arrive as
\* sent or not at all.
NextLatency ==
    \/ TickBetweenRuns
    \/ GetLicense(Followed)
    \/ RevokeAtStart
    \/ Startup
    \/ SendCheck
    \/ ServerCheck
    \/ NetError
    \/ Receive
    \/ Exit

SpecLatency == Init /\ [][NextLatency]_vars

\* C17 (as claimed), for a revoke completed at r = 0: whatever checks were
\* made since and whether or not they reached the authority, no check of
\* the revoked subject later than r + 24 hours decides admit.
C17_NoAdmitAfterGraceWindow ==
    (/\ pc = "done" /\ token.user_id = Followed /\ Followed \in revoke_done
     /\ now > GRACE_PERIOD_HOURS * SECONDS_PER_HOUR)
        => exit_code # 0

----------------------------------------------------------------------------
(* C18 *)

\* The authority answers the checks of the followed subject only; every
\* check of another subject finds it out of reach.
ServerCheckFollowed == token.user_id = Followed /\ ServerCheck

\* One consumer directory in which the token files are replaced by the
\* grants of different subjects, none of them revoked, with answers that
\* arrive as sent or not at all.
NextSubjects ==
    \/ Tick
    \/ \E u \in UserIds : GetLicense(u)
    \/ Startup
    \/ SendCheck
    \/ ServerCheckFollowed
    \/ NetError
    \/ Receive
    \/ Exit

SpecSubjects == Init /\ [][NextSubjects]_vars

\* C18 (as claimed), where no check of a subject other than the followed one
\* ever reaches the authority: such a subject has no online check of its
\* own to count from, so the gate never admits it through the grace period,
\* whatever online checks were made for the followed subject.
C18_GraceNeedsOwnOnlineCheck ==
    (pc = "done" /\ token.user_id # Followed) => outcome # "grace_period"

----------------------------------------------------------------------------
(* C19 *)

\* u64::MAX in decimal, and the number after it, which no u64 holds.
MaxText == [i \in 1..U64_DIGITS |-> Digits[U64_MAX[i] + 1]]

PastMaxText == [MaxText EXCEPT ![U64_DIGITS] = "6"]

\* What an editor leaves in the last-check file.
EditedTexts == {MaxText, PastMaxText}

\* Everything outside the consumer's directory and clock.
outsideClock ==
    <<signing_key, revoked_users, trial_token, trial_signature, pc, token, net,
      outcome, exit_code, detail, stages, served, revoke_done, told_revoked,
      expired_seen, fineVars>>

\* The system clock is set back between two runs.
SetClockBack ==
    /\ pc = "idle"
    /\ \E t \in TimePoints : t < now /\ now' = t
    /\ UNCHANGED last_check_file
    /\ UNCHANGED outsideClock

\* The last-check file is edited between two runs.
EditLastCheck(text) ==
    /\ pc = "idle"
    /\ last_check_file.exists
    /\ last_check_file' = File(text)
    /\ UNCHANGED now
    /\ UNCHANGED outsideClock

\* The consumer of one subject whose clock and last-check file can be
\* changed, with answers that arrive as sent or not at all.
NextClock ==
    \/ TickBetweenRuns
    \/ SetClockBack
    \/ \E text \in EditedTexts : EditLastCheck(text)
    \/ GetLicense(Followed)
    \/ Startup
    \/ SendCheck
    \/ ServerCheck
    \/ NetError
    \/ Receive
    \/ Exit

SpecClock == Init /\ [][NextClock]_vars

\* C19 (as claimed): an offline check that finds a LastOnlineCheck later than
\* now never decides admit; the underflowing now - LastOnlineCheck never
\* comes out inside the grace window.
C19_FutureLastCheckNeverAdmits ==
    (pc = "done" /\ Unreachable /\ SubtractOverflows(last_check_file, now))
        => exit_code # 0

\* C19, for a clock set back alone: with a LastOnlineCheck that a check
\* recorded, later than now, the difference wraps to more than the window
\* (or the build panics), and the check denies.
C19_ClockSetBackNeverAdmits ==
    (/\ pc = "done" /\ Unreachable /\ SubtractOverflows(last_check_file, now)
     /\ last_check_file.content \notin EditedTexts)
        => exit_code # 0

\* A check denied after the clock was set back behind LastOnlineCheck, by
\* the panic of a build with overflow checks.
C19_PanicSeen ==
    /\ pc = "done" /\ Unreachable /\ outcome = "panicked"
    /\ exit_code = PANIC_EXIT_CODE /\ last_check_file.content \notin EditedTexts

====
